---- MODULE Spec2Model ----
(***************************************************************************)
(* Adam.step of torch/optim/adam.py as a state machine.                    *)
(*                                                                         *)
(* Floating-point numbers are modelled as fixed-point integers: the        *)
(* integer n stands for the real n / SCALE, and every arithmetic operation *)
(* rounds its result to the nearest representable number, as a float       *)
(* operation does.  A non-finite result (inf, nan) is the value NaN.       *)
(***************************************************************************)
EXTENDS Integers, Sequences, FiniteSets, TLC

\* Number of fixed-point units in 1.0 (the precision of the arithmetic).
SCALE == 10000

\* Number of step() calls explored.
MaxCalls == 2

----------------------------------------------------------------------------
(* Scalar arithmetic *)

\* The non-finite float (inf or nan); absorbing in every operation.
NaN == 0 - (10 * SCALE * SCALE)

\* n / d rounded to the nearest integer, d > 0.
Round(n, d) == (2 * n + d) \div (2 * d)

Add(a, b) == IF a = NaN \/ b = NaN THEN NaN ELSE a + b

Mul(a, b) == IF a = NaN \/ b = NaN THEN NaN ELSE Round(a * b, SCALE)

Div(a, b) ==
    IF a = NaN \/ b = NaN \/ b = 0 THEN NaN
    ELSE IF b > 0 THEN Round(a * SCALE, b) ELSE Round(0 - (a * SCALE), 0 - b)

RECURSIVE SqrtSearch(_, _, _)
SqrtSearch(x, lo, hi) ==
    IF lo >= hi THEN lo
    ELSE LET mid == (lo + hi + 1) \div 2
         IN  IF mid * mid <= x THEN SqrtSearch(x, mid, hi)
                               ELSE SqrtSearch(x, lo, mid - 1)

\* Square root; of a negative number it is nan.
Sqrt(a) == IF a = NaN \/ a < 0 THEN NaN ELSE SqrtSearch(a * SCALE, 0, 4 * SCALE)

\* b ** n for an integer n >= 0.
RECURSIVE Pow(_, _)
Pow(b, n) == IF n <= 0 THEN SCALE ELSE Mul(b, Pow(b, n - 1))

----------------------------------------------------------------------------
(* Tensor operations (a tensor is a sequence of numbers) *)

zeros_like(t) == [k \in DOMAIN t |-> 0]

\* t.mul(c)
mul(t, c) == [k \in DOMAIN t |-> Mul(t[k], c)]

\* t.add(c, u) = t + c * u
add(t, c, u) == [k \in DOMAIN t |-> Add(t[k], Mul(c, u[k]))]

\* t.add(c) = t + c
add_scalar(t, c) == [k \in DOMAIN t |-> Add(t[k], c)]

\* t.addcmul(c, u, v) = t + c * u * v
addcmul(t, c, u, v) == [k \in DOMAIN t |-> Add(t[k], Mul(Mul(c, u[k]), v[k]))]

\* t.addcdiv(c, u, v) = t + c * u / v
addcdiv(t, c, u, v) == [k \in DOMAIN t |-> Add(t[k], Div(Mul(c, u[k]), v[k]))]

\* t.sqrt()
sqrt(t) == [k \in DOMAIN t |-> Sqrt(t[k])]

----------------------------------------------------------------------------
(* The optimizer's construction-time inputs *)

Params == 1 .. 3

\* Two groups; the second has a non-zero weight decay.
param_groups ==
    << [params |-> <<1, 2>>,
        lr |-> SCALE \div 10,
        betas |-> <<SCALE \div 2, (3 * SCALE) \div 4>>,
        eps |-> 1,
        weight_decay |-> 0],
       [params |-> <<3>>,
        lr |-> SCALE \div 100,
        betas |-> <<(9 * SCALE) \div 10, (999 * SCALE) \div 1000>>,
        eps |-> 10,
        weight_decay |-> SCALE \div 10] >>

\* The values of the parameters when the optimizer is constructed.
InitData == << <<SCALE>>, <<SCALE \div 2, 0 - SCALE>>, <<SCALE>> >>

\* The iteration order of the two nested loops: (group index, parameter).
RECURSIVE FlatFrom(_)
FlatFrom(g) ==
    IF g > Len(param_groups) THEN << >>
    ELSE [k \in 1 .. Len(param_groups[g].params) |->
              [g |-> g, p |-> param_groups[g].params[k]]] \o FlatFrom(g + 1)

Flat == FlatFrom(1)

----------------------------------------------------------------------------
(* Gradients and closures *)

\* p.grad is None
NoGrad(p) == [present |-> FALSE, is_sparse |-> FALSE, data |-> zeros_like(InitData[p])]

SparseGrad(p) == [present |-> TRUE, is_sparse |-> TRUE, data |-> zeros_like(InitData[p])]

DenseGrad(t) == [present |-> TRUE, is_sparse |-> FALSE, data |-> t]

\* The dense gradients a backward pass may leave on parameter p.
DenseData(p) ==
    IF p = 1 THEN { <<SCALE \div 10>>, <<0 - SCALE>> }
    ELSE IF p = 2 THEN { <<0, 0 - SCALE>>, <<SCALE \div 2, SCALE \div 4>> }
    ELSE { <<SCALE \div 2>> }

GradChoices(p) == {NoGrad(p), SparseGrad(p)} \cup {DenseGrad(t) : t \in DenseData(p)}

GradAssignments == {ga \in [Params -> UNION {GradChoices(p) : p \in Params}] :
                        \A p \in Params : ga[p] \in GradChoices(p)}

LossVals == {0, 3 * SCALE}

\* A closure re-evaluates the model (leaving new gradients) and returns the loss.
Closures == [loss : LossVals, grads : GradAssignments]

\* None, for an optional value held as a sequence of length 0 or 1.
None == << >>

----------------------------------------------------------------------------
(* State *)

VARIABLES
    data,           \* p.data of every parameter
    grad,           \* p.grad of every parameter
    state,          \* self.state: parameter -> dict (the empty function when empty)
    pc,             \* position in step(): idle, start, check, init, moments, apply
    i,              \* position of the loops in Flat
    closure,        \* the argument of the running call
    loss,           \* the local `loss`
    local,          \* the locals grad, denom, bias_correction1/2, step_size
    outcome,        \* how the last call ended: returned value or raised error
    entry,          \* data and state as they were when the running call began
    closure_calls,  \* times the closure was invoked in the running call
    calls           \* number of step() calls made

vars == <<data, grad, state, pc, i, closure, loss, local, outcome, entry,
          closure_calls, calls>>

EmptyState == [k \in {} |-> 0]

NoLocals == [grad |-> << >>, denom |-> << >>, bias_correction1 |-> 0,
             bias_correction2 |-> 0, step_size |-> 0]

NoOutcome == [kind |-> "none", value |-> None, error |-> "", p |-> 0]

Init ==
    /\ data = [p \in Params |-> InitData[p]]
    /\ grad = [p \in Params |-> NoGrad(p)]
    /\ state = [p \in Params |-> EmptyState]
    /\ pc = "idle"
    /\ i = 1
    /\ closure = None
    /\ loss = None
    /\ local = NoLocals
    /\ outcome = NoOutcome
    /\ entry = [data |-> [p \in Params |-> InitData[p]],
                state |-> [p \in Params |-> EmptyState]]
    /\ closure_calls = 0
    /\ calls = 0

----------------------------------------------------------------------------
(* step(): the pieces of its body as operators *)

\* The parameter and the group the loops are at.
CurP == Flat[i].p

CurGroup == param_groups[Flat[i].g]

Returned(v) == [kind |-> "return", value |-> v, error |-> "", p |-> 0]

Raised(err, p) == [kind |-> "raise", value |-> None, error |-> err, p |-> p]

\* Mutant: the closure is invoked but its result is dropped.
call_closure_discard(c, gr) ==
    IF c = None
    THEN [loss |-> None, grad |-> gr, invoked |-> 0]
    ELSE [loss |-> None, grad |-> c[1].grads, invoked |-> 1]

\* loss = None; if closure is not None: loss = closure()
call_closure(c, gr) ==
    IF c = None
    THEN [loss |-> None, grad |-> gr, invoked |-> 0]
    ELSE [loss |-> <<c[1].loss>>, grad |-> c[1].grads, invoked |-> 1]

\* Mutant: no test for a sparse gradient.
check_sparse_as_dense(gr) ==
    IF ~gr.present THEN "continue" ELSE "update"

\* Mutant: a sparse gradient is skipped instead of raising.
check_sparse_skipped(gr) ==
    IF ~gr.present \/ gr.is_sparse THEN "continue" ELSE "update"

\* Mutant: no test for an absent gradient, so p.grad.data fails on None.
check_no_none_test(gr) ==
    IF ~gr.present \/ gr.is_sparse THEN "raise" ELSE "update"

\* What the head of the loop body does with p.grad.
check(gr) ==
    IF ~gr.present THEN "continue"
    ELSE IF gr.is_sparse THEN "raise"
    ELSE "update"

\* Mutant: the state is initialised on every update.
state_initialization_always(st, pdata) ==
    [step |-> 0, exp_avg |-> zeros_like(pdata), exp_avg_sq |-> zeros_like(pdata)]

\* state = self.state[p], initialised when empty.
state_initialization(st, pdata) ==
    IF DOMAIN st = {}
    THEN [step |-> 0, exp_avg |-> zeros_like(pdata), exp_avg_sq |-> zeros_like(pdata)]
    ELSE st

\* Mutant: state['step'] += 1 is missing.
moments_no_increment(group, st, g, pdata) ==
    LET beta1 == group.betas[1]
        beta2 == group.betas[2]
        g2 == IF group.weight_decay # 0 THEN add(g, group.weight_decay, pdata) ELSE g
    IN  [state |-> [step |-> st.step,
                    exp_avg |-> add(mul(st.exp_avg, beta1), SCALE - beta1, g2),
                    exp_avg_sq |-> addcmul(mul(st.exp_avg_sq, beta2), SCALE - beta2, g2, g2)],
         grad |-> g2,
         p_grad |-> g]

\* Mutant: the weight decay is folded in after the moment updates.
moments_decay_late(group, st, g, pdata) ==
    LET beta1 == group.betas[1]
        beta2 == group.betas[2]
        g2 == IF group.weight_decay # 0 THEN add(g, group.weight_decay, pdata) ELSE g
    IN  [state |-> [step |-> st.step + 1,
                    exp_avg |-> add(mul(st.exp_avg, beta1), SCALE - beta1, g),
                    exp_avg_sq |-> addcmul(mul(st.exp_avg_sq, beta2), SCALE - beta2, g, g)],
         grad |-> g2,
         p_grad |-> g]

\* Mutant: the weight decay is added in place (grad.add_), into p.grad.data.
moments_decay_in_place(group, st, g, pdata) ==
    LET beta1 == group.betas[1]
        beta2 == group.betas[2]
        g2 == IF group.weight_decay # 0 THEN add(g, group.weight_decay, pdata) ELSE g
    IN  [state |-> [step |-> st.step + 1,
                    exp_avg |-> add(mul(st.exp_avg, beta1), SCALE - beta1, g2),
                    exp_avg_sq |-> addcmul(mul(st.exp_avg_sq, beta2), SCALE - beta2, g2, g2)],
         grad |-> g2,
         p_grad |-> g2]

\* The step counter, the weight decay and the two moving averages.  g is the
\* local `grad`, which aliases p.grad.data; p_grad is p.grad.data afterwards.
moments(group, st, g, pdata) ==
    LET beta1 == group.betas[1]
        beta2 == group.betas[2]
        g2 == IF group.weight_decay # 0 THEN add(g, group.weight_decay, pdata) ELSE g
    IN  [state |-> [step |-> st.step + 1,
                    exp_avg |-> add(mul(st.exp_avg, beta1), SCALE - beta1, g2),
                    exp_avg_sq |-> addcmul(mul(st.exp_avg_sq, beta2), SCALE - beta2, g2, g2)],
         grad |-> g2,
         p_grad |-> g]

\* Mutant: eps is not added.
denominator_no_eps(group, st) == sqrt(st.exp_avg_sq)

\* denom = exp_avg_sq.sqrt().add_(group['eps'])
denominator(group, st) == add_scalar(sqrt(st.exp_avg_sq), group.eps)

\* Mutant: the bias corrections use the step counter before its increment.
bias_correction_stale(beta, step) == SCALE - Pow(beta, step - 1)

\* 1 - beta ** state['step']
bias_correction(beta, step) == SCALE - Pow(beta, step)

\* return loss
return_value(l) == l

----------------------------------------------------------------------------
(* step(): the actions *)

\* step(closure) is called.
Step(c) ==
    /\ pc = "idle"
    /\ calls < MaxCalls
    /\ closure' = c
    /\ loss' = None
    /\ local' = NoLocals
    /\ i' = 1
    /\ pc' = "start"
    /\ outcome' = NoOutcome
    /\ entry' = [data |-> data, state |-> state]
    /\ closure_calls' = 0
    /\ calls' = calls + 1
    /\ UNCHANGED <<data, grad, state>>

CallClosure ==
    /\ pc = "start"
    /\ LET r == call_closure(closure, grad)
       IN  /\ loss' = r.loss
           /\ grad' = r.grad
           /\ closure_calls' = closure_calls + r.invoked
    /\ pc' = "check"
    /\ UNCHANGED <<data, state, i, closure, local, outcome, entry, calls>>

\* The loops reach the next parameter: skip it, raise, or go on to update it.
Check ==
    /\ pc = "check"
    /\ i <= Len(Flat)
    /\ LET what == check(grad[CurP])
       IN  /\ pc' = IF what = "continue" THEN "check"
                    ELSE IF what = "raise" THEN "idle" ELSE "init"
           /\ i' = IF what = "continue" THEN i + 1 ELSE i
           /\ outcome' = IF what = "raise" THEN Raised("RuntimeError", CurP) ELSE outcome
           /\ local' = IF what = "update" THEN [local EXCEPT !.grad = grad[CurP].data]
                       ELSE local
    /\ UNCHANGED <<data, grad, state, closure, loss, entry, closure_calls, calls>>

StateInit ==
    /\ pc = "init"
    /\ state' = [state EXCEPT ![CurP] = state_initialization(@, data[CurP])]
    /\ pc' = "moments"
    /\ UNCHANGED <<data, grad, i, closure, loss, local, outcome, entry,
                   closure_calls, calls>>

UpdateMoments ==
    /\ pc = "moments"
    /\ LET m == moments(CurGroup, state[CurP], local.grad, data[CurP])
       IN  /\ state' = [state EXCEPT ![CurP] = m.state]
           /\ local' = [local EXCEPT !.grad = m.grad]
           /\ grad' = [grad EXCEPT ![CurP].data = m.p_grad]
    /\ pc' = "apply"
    /\ UNCHANGED <<data, i, closure, loss, outcome, entry, closure_calls, calls>>

\* denom, the bias corrections, the step size and the parameter's update.
\* math.sqrt of a negative number and a float division by zero raise.
ApplyUpdate ==
    /\ pc = "apply"
    /\ LET st == state[CurP]
           denom == denominator(CurGroup, st)
           bias_correction1 == bias_correction(CurGroup.betas[1], st.step)
           bias_correction2 == bias_correction(CurGroup.betas[2], st.step)
           ok == bias_correction2 >= 0 /\ bias_correction1 # 0
           step_size == IF ok THEN Div(Mul(CurGroup.lr, Sqrt(bias_correction2)),
                                       bias_correction1)
                        ELSE local.step_size
       IN  /\ local' = [local EXCEPT !.denom = denom,
                                     !.bias_correction1 = bias_correction1,
                                     !.bias_correction2 = bias_correction2,
                                     !.step_size = step_size]
           /\ data' = IF ok
                      THEN [data EXCEPT ![CurP] = addcdiv(@, 0 - step_size, st.exp_avg, denom)]
                      ELSE data
           /\ i' = IF ok THEN i + 1 ELSE i
           /\ pc' = IF ok THEN "check" ELSE "idle"
           /\ outcome' = IF ok THEN outcome
                         ELSE IF bias_correction2 < 0 THEN Raised("ValueError", CurP)
                         ELSE Raised("ZeroDivisionError", CurP)
    /\ UNCHANGED <<grad, state, closure, loss, entry, closure_calls, calls>>

\* The loops are over.
Return ==
    /\ pc = "check"
    /\ i > Len(Flat)
    /\ outcome' = Returned(return_value(loss))
    /\ pc' = "idle"
    /\ UNCHANGED <<data, grad, state, i, closure, loss, local, entry,
                   closure_calls, calls>>

Next ==
    \/ \E c \in {None} \cup {<<cl>> : cl \in Closures} : Step(c)
    \/ CallClosure
    \/ Check
    \/ StateInit
    \/ UpdateMoments
    \/ ApplyUpdate
    \/ Return

Spec == Init /\ [][Next]_vars

----------------------------------------------------------------------------
(* Vocabulary of the properties *)

IsDense(gr) == gr.present /\ ~gr.is_sparse

IsSparse(gr) == gr.present /\ gr.is_sparse

HasState(st) == DOMAIN st # {}

StepOf(st) == IF HasState(st) THEN st.step ELSE 0

\* Position of parameter p in the iteration order.
Pos(p) == CHOOSE j \in 1 .. Len(Flat) : Flat[j].p = p

\* The loop body is updating the parameter at position i.
InUpdate == pc \in {"init", "moments", "apply"}

\* A call has ended and no other has begun.
CallOver == pc = "idle" /\ outcome.kind # "none"

\* Parameter p is as it was when the call began.
Untouched(p) == data[p] = entry.data[p] /\ state[p] = entry.state[p]

----------------------------------------------------------------------------
(* C1: when step() reaches a parameter whose gradient is sparse it raises,   *)
(* and that parameter is as before the call: same value, same step counter,  *)
(* same exp_avg and exp_avg_sq, and no state record if it had none.  The     *)
(* update of a parameter is never begun on a sparse gradient, the loops never*)
(* go past one, and the parameter a RuntimeError was raised for has a sparse *)
(* gradient and is untouched.                                                *)
C1_SparseRejected ==
    /\ InUpdate => ~IsSparse(grad[CurP])
    /\ pc \notin {"idle", "start"} =>
           \A j \in 1 .. Len(Flat) : j < i => ~IsSparse(grad[Flat[j].p])
    /\ outcome.kind = "raise" =>
           /\ outcome.error = "RuntimeError"
           /\ IsSparse(grad[outcome.p])
           /\ Untouched(outcome.p)
           /\ HasState(state[outcome.p]) = HasState(entry.state[outcome.p])

\* A call raised at a parameter that had been updated by an earlier call.
C1_Witness ==
    /\ CallOver
    /\ outcome.kind = "raise"
    /\ HasState(state[outcome.p])
    /\ state[outcome.p].step = 1

(* C2, as stated: a sparse gradient on one parameter does not abort the     *)
(* loop; at the end of the call every parameter with a dense gradient has   *)
(* received its update, before or after the sparse one in iteration order.  *)
C2_AllDenseSiblingsUpdated ==
    CallOver =>
        \A p \in Params : IsDense(grad[p]) =>
            StepOf(state[p]) = StepOf(entry.state[p]) + 1

(* C2, amended: the raise ends the call at the first parameter with a sparse *)
(* gradient.  Every parameter with a dense gradient before it in iteration   *)
(* order has received its update (step incremented, state record present),   *)
(* every parameter after it is untouched by the call, and a call that        *)
(* returns has met no sparse gradient.                                       *)
C2_SparseEndsTheCall ==
    /\ CallOver /\ outcome.kind = "return" =>
           \A p \in Params : ~IsSparse(grad[p])
    /\ CallOver /\ outcome.kind = "raise" =>
           \A p \in Params :
               /\ Pos(p) < Pos(outcome.p) /\ IsDense(grad[p]) =>
                      /\ HasState(state[p])
                      /\ state[p].step = StepOf(entry.state[p]) + 1
                      /\ state[p] # entry.state[p]
               /\ Pos(p) > Pos(outcome.p) => Untouched(p)

\* The second parameter is sparse: the first, dense, was updated and the
\* third, dense too, was not.
C2_Witness ==
    /\ CallOver
    /\ outcome.kind = "raise"
    /\ outcome.p = 2
    /\ IsDense(grad[1]) /\ state[1] # entry.state[1]
    /\ IsDense(grad[3]) /\ Untouched(3)

(* C3: a parameter whose gradient is None is skipped without an error: its  *)
(* value and its entry in the state store stay as they were when the call   *)
(* began (no record created, step, exp_avg and exp_avg_sq unchanged), its   *)
(* update is never begun and no error is raised for it.                     *)
C3_NoGradUntouched ==
    /\ \A p \in Params : ~grad[p].present => Untouched(p)
    /\ InUpdate => grad[CurP].present
    /\ outcome.kind = "raise" => grad[outcome.p].present

\* After two calls that returned, a parameter without gradient has no state
\* record while another parameter was updated.
C3_Witness ==
    /\ CallOver
    /\ outcome.kind = "return"
    /\ calls = 2
    /\ \E p, q \in Params :
           /\ ~grad[p].present /\ ~HasState(state[p]) /\ data[p] = InitData[p]
           /\ StepOf(state[q]) = 2

\* The running (or last) call reaches parameter p: no parameter before it in
\* iteration order has a sparse gradient.
Reached(p) == \A q \in Params : Pos(q) < Pos(p) => ~IsSparse(grad[q])

(* C4, as stated: the step counter counts the step() calls in which the     *)
(* parameter has a dense gradient; every such call raises it by exactly 1   *)
(* and every other call leaves it alone, so that N such calls from no state *)
(* give step = N.                                                           *)
C4_StepCountsDenseCalls ==
    CallOver =>
        \A p \in Params :
            StepOf(state[p]) =
                StepOf(entry.state[p]) + (IF IsDense(grad[p]) THEN 1 ELSE 0)

(* C4, amended: the step counter counts the updates processed for the       *)
(* parameter.  A call raises it by exactly 1 when the parameter has a dense *)
(* gradient and the call reaches it (no earlier parameter has a sparse      *)
(* gradient), and leaves it alone otherwise; within a call it never         *)
(* decreases and rises by at most 1; a state record never disappears; and   *)
(* from no state the counter is at most the number of calls made.           *)
C4_StepCountsProcessedUpdates ==
    /\ CallOver =>
           \A p \in Params :
               StepOf(state[p]) =
                   StepOf(entry.state[p])
                       + (IF IsDense(grad[p]) /\ Reached(p) THEN 1 ELSE 0)
    /\ \A p \in Params :
           /\ StepOf(entry.state[p]) <= StepOf(state[p])
           /\ StepOf(state[p]) <= StepOf(entry.state[p]) + 1
           /\ HasState(entry.state[p]) => HasState(state[p])
           /\ StepOf(state[p]) <= calls

\* Two calls updated the first parameter twice; another parameter, without
\* gradient in the second call, stayed at 1.
C4_Witness ==
    /\ CallOver
    /\ calls = 2
    /\ StepOf(state[1]) = 2
    /\ \E q \in Params : ~grad[q].present /\ StepOf(state[q]) = 1

(* C5: the state record is created on the first update only.  Right after   *)
(* the initialisation step of an update, a parameter that had no record has *)
(* step = 0 and all-zero exp_avg and exp_avg_sq of the parameter's shape,   *)
(* and a parameter that had one has the very same record (nothing           *)
(* re-zeroed); the first update leaves step = 1.                            *)
C5_LazyInitOnce ==
    /\ pc = "moments" =>
           IF HasState(entry.state[CurP])
           THEN state[CurP] = entry.state[CurP]
           ELSE /\ HasState(state[CurP])
                /\ state[CurP].step = 0
                /\ state[CurP].exp_avg = [k \in 1 .. Len(data[CurP]) |-> 0]
                /\ state[CurP].exp_avg_sq = [k \in 1 .. Len(data[CurP]) |-> 0]
    /\ \A p \in Params :
           /\ HasState(state[p]) =>
                  /\ Len(state[p].exp_avg) = Len(data[p])
                  /\ Len(state[p].exp_avg_sq) = Len(data[p])
           /\ ~HasState(entry.state[p]) /\ HasState(state[p])
                  /\ ~(pc = "moments" /\ p = CurP) => state[p].step = 1

\* A second update of a parameter finds its record, with moments that are
\* not zero.
C5_Witness ==
    /\ pc = "moments"
    /\ HasState(entry.state[CurP])
    /\ state[CurP].step = 1
    /\ \E k \in 1 .. Len(data[CurP]) :
           state[CurP].exp_avg[k] # 0 /\ state[CurP].exp_avg_sq[k] # 0

(* C6: a closure given to step() is invoked exactly once per call, and      *)
(* before any parameter or state record is touched; step() returns what the *)
(* closure returned, and None when there is no closure.                     *)
C6_ClosureOnceThenReturned ==
    /\ pc = "start" => closure_calls = 0
    /\ closure_calls = 0 /\ closure # None =>
           /\ data = entry.data
           /\ state = entry.state
           /\ i = 1
           /\ local = NoLocals
    /\ pc # "start" /\ calls > 0 =>
           /\ closure_calls = (IF closure = None THEN 0 ELSE 1)
           /\ loss = (IF closure = None THEN None ELSE <<closure[1].loss>>)
    /\ outcome.kind = "return" =>
           outcome.value = (IF closure = None THEN None ELSE <<closure[1].loss>>)

\* A call with a closure updated a parameter and returned the closure's loss.
C6_Witness ==
    /\ CallOver
    /\ outcome.kind = "return"
    /\ closure # None
    /\ outcome.value = <<3 * SCALE>>
    /\ closure_calls = 1
    /\ \E p \in Params : state[p] # entry.state[p]

\* The positions of the parameters whose moments the running (or last) call
\* has updated.
MomentsDone ==
    {j \in 1 .. Len(Flat) :
        /\ pc # "start"
        /\ calls > 0
        /\ IsDense(grad[Flat[j].p])
        /\ j < i \/ (j = i /\ pc = "apply")}

\* The moments of parameter p before the call (zero when it had no record).
OldExpAvg(p) ==
    IF HasState(entry.state[p]) THEN entry.state[p].exp_avg
    ELSE [k \in 1 .. Len(entry.data[p]) |-> 0]

OldExpAvgSq(p) ==
    IF HasState(entry.state[p]) THEN entry.state[p].exp_avg_sq
    ELSE [k \in 1 .. Len(entry.data[p]) |-> 0]

\* grad + weight_decay * p_old, element k, for the parameter at position j.
EffectiveGrad(j, k) ==
    grad[Flat[j].p].data[k]
        + Round(param_groups[Flat[j].g].weight_decay * entry.data[Flat[j].p][k], SCALE)

(* C7: for every processed parameter, with g = grad + weight_decay * p_old  *)
(* (p_old the value before this call's update; g = grad when weight_decay   *)
(* is 0): exp_avg' = beta1 * exp_avg + (1 - beta1) * g and                  *)
(* exp_avg_sq' = beta2 * exp_avg_sq + (1 - beta2) * g * g, each product     *)
(* rounded; and when both moments have been updated the parameter still has *)
(* its old value.                                                           *)
C7_MomentRecurrence ==
    /\ \A j \in MomentsDone :
           LET p == Flat[j].p
               beta1 == param_groups[Flat[j].g].betas[1]
               beta2 == param_groups[Flat[j].g].betas[2]
           IN  \A k \in 1 .. Len(data[p]) :
                   LET g == EffectiveGrad(j, k)
                   IN  /\ state[p].exp_avg[k] =
                              Round(beta1 * OldExpAvg(p)[k], SCALE)
                                  + Round((SCALE - beta1) * g, SCALE)
                       /\ state[p].exp_avg_sq[k] =
                              Round(beta2 * OldExpAvgSq(p)[k], SCALE)
                                  + Round(Round((SCALE - beta2) * g, SCALE) * g, SCALE)
    /\ pc = "apply" =>
           /\ data[CurP] = entry.data[CurP]
           /\ \A k \in 1 .. Len(data[CurP]) : local.grad[k] = EffectiveGrad(i, k)
           /\ CurGroup.weight_decay = 0 => local.grad = grad[CurP].data

\* The moments of a parameter with weight decay were updated a second time.
C7_Witness ==
    /\ pc = "apply"
    /\ CurGroup.weight_decay # 0
    /\ state[CurP].step = 2
    /\ local.grad # grad[CurP].data
    /\ state[CurP].exp_avg # entry.state[CurP].exp_avg

(* C8: exp_avg_sq is never negative, and the denominator                    *)
(* sqrt(exp_avg_sq) + eps computed at an update is strictly positive in     *)
(* every element, also where exp_avg_sq is exactly zero; no parameter ever  *)
(* becomes non-finite.                                                      *)
C8_DenomPositive ==
    /\ \A p \in Params :
           /\ HasState(state[p]) =>
                  \A k \in 1 .. Len(state[p].exp_avg_sq) : state[p].exp_avg_sq[k] >= 0
           /\ \A k \in 1 .. Len(data[p]) : data[p][k] # NaN
    /\ \A k \in 1 .. Len(local.denom) : local.denom[k] > 0

\* The second parameter was updated with a gradient whose first element is
\* zero: exp_avg_sq is zero there and the denominator is eps.
C8_Witness ==
    /\ pc = "check"
    /\ i = 3
    /\ IsDense(grad[2])
    /\ state[2].exp_avg_sq[1] = 0
    /\ state[2].exp_avg_sq[2] > 0
    /\ local.denom[1] = param_groups[1].eps

(* C9: step() never modifies p.grad.  Apart from the closure's own          *)
(* invocation, no step of a call changes the gradient of any parameter, with*)
(* or without weight decay; the weight decay goes into the local copy only. *)
C9_GradNotModified ==
    [][(pc # "start" \/ closure = None) => grad' = grad]_vars

\* A second call, without closure, is updating a parameter with weight decay:
\* the local gradient holds the decay term and p.grad is what the first
\* call's closure left.
C9_Witness ==
    /\ pc = "apply"
    /\ calls = 2
    /\ closure = None
    /\ CurGroup.weight_decay # 0
    /\ local.grad # grad[CurP].data
    /\ grad[CurP].data \in DenseData(CurP)

(* C10: the step counter is incremented before the bias corrections are     *)
(* computed, so step >= 1 there; both bias corrections lie in (0, 1] at     *)
(* every update, and the step size never divides by zero.                   *)
C10_BiasCorrectionsInRange ==
    /\ pc = "apply" => state[CurP].step >= 1
    /\ local.denom # << >> =>
           /\ 0 < local.bias_correction1 /\ local.bias_correction1 <= SCALE
           /\ 0 < local.bias_correction2 /\ local.bias_correction2 <= SCALE
           /\ local.step_size # NaN
    /\ outcome.error \notin {"ZeroDivisionError", "ValueError"}

\* The first and the second update of the parameter of the second group
\* (betas 0.9 and 0.999) computed their bias corrections.
C10_Witness ==
    /\ pc = "check"
    /\ i = 4
    /\ IsDense(grad[3])
    /\ StepOf(state[3]) = 2
    /\ local.bias_correction1 = SCALE - Round(param_groups[2].betas[1] * param_groups[2].betas[1], SCALE)
    /\ local.bias_correction2 < SCALE \div 100
    /\ local.step_size > 0

====
